---- MODULE Spec2Model ----
(***************************************************************************)
(* The Toist todo-list component, in its two source versions:             *)
(*   src/app/page.js       (validation, error handling, isClient gate)     *)
(*   src/unnamed/part_000  (the first version: no gate, no try/catch)      *)
(*                                                                         *)
(* React is modelled as the code relies on it: a render commits the queued *)
(* state updates, then the effects whose dependencies changed run in the   *)
(* order they are declared, each reading the values of the render that     *)
(* scheduled it (its closure) and queueing further updates.                *)
(*                                                                         *)
(* JavaScript strings are sequences of one-character strings; the value    *)
(* kept in localStorage is the sequence of JSON tokens of its text.        *)
(***************************************************************************)
EXTENDS Integers, Sequences, FiniteSets, TLC

VARIABLES
    version,     \* which source file is running: "page" or "part_000"
    todos,       \* useState([]) : the rendered value of todos (a JS value)
    inputValue,  \* useState('') : the rendered value of inputValue
    isLoading,   \* useState(true)
    error,       \* useState('')
    isClient,    \* useState(false)
    queued,      \* the state updates queued by setTodos/setError/... since the last render
    effects,     \* the effects of the last render that have not run yet, in order
    crashed,     \* a render or an effect threw an uncaught exception
    storage,     \* localStorage: the item under 'toist-todos'
    now,         \* Date.now()
    lastOp,      \* history: the last operation: "mount", "mutation" or "addRejected"
    writes,      \* history: calls of localStorage.setItem since lastOp
    lastWrite,   \* history: outcome of the last setItem call since lastOp
    loadThrew,   \* history: the load effect's catch block ran
    failures     \* history: how many setItem calls have thrown

vars == <<version, todos, inputValue, isLoading, error, isClient, queued, effects,
          crashed, storage, now, lastOp, writes, lastWrite, loadThrew, failures>>

(***************************************************************************)
(* Bounds of the model                                                     *)
(***************************************************************************)
MaxTodos == 2          \* addTodo is offered while the list is shorter
MaxClock == 3          \* Date.now() does not pass MaxClock
MaxSaveFailures == 1   \* how many setItem calls may throw in one behaviour

(***************************************************************************)
(* Program constants                                                       *)
(***************************************************************************)
MaxTextLen == 200

StorageKey == "toist-todos"

ErrNone == ""
ErrLoadFailed == "Failed to load saved todos. Starting fresh."
ErrSaveFailed == "Failed to save todos. Your changes may not persist."
ErrEmptyInput == "Please enter a task."
ErrTooLong == "Task is too long. Please keep it under 200 characters."

(***************************************************************************)
(* JavaScript values                                                       *)
(***************************************************************************)
\* A scalar, and a JSON token: k is its kind, s its characters, n its number.
Tok(k, s, n) == [k |-> k, s |-> s, n |-> n]
P(k) == Tok(k, <<>>, 0)
StrVal(s) == Tok("str", s, 0)
NumVal(n) == Tok("num", <<>>, n)
Key(name) == Tok("key", <<name>>, 0)
BoolVal(b) == IF b THEN P("true") ELSE P("false")
JsNull == P("null")
Undefined == P("undefined")

ScalarKinds == {"null", "true", "false", "num", "str"}

\* JavaScript truthiness of a scalar
Truthy(v) ==
    \/ v.k = "true"
    \/ v.k = "num" /\ v.n # 0
    \/ v.k = "str" /\ v.s # <<>>

\* A JS value: an array of task objects, one object, or a scalar.
ArrayVal(items) == [kind |-> "array", items |-> items, lit |-> Undefined]
ObjectVal(obj) == [kind |-> "object", items |-> <<obj>>, lit |-> Undefined]
ScalarVal(tok) == [kind |-> "scalar", items |-> <<>>, lit |-> tok]

Rep(c, n) == [i \in 1..n |-> c]

Digits == <<"0", "1", "2", "3", "4", "5", "6", "7", "8", "9">>

RECURSIVE ToStr(_)
\* Number.prototype.toString(): the decimal digits of n
ToStr(n) == IF n < 10 THEN <<Digits[n + 1]>>
            ELSE ToStr(n \div 10) \o <<Digits[(n % 10) + 1]>>

\* Date.prototype.toISOString() of the instant t
toISOString(t) == <<"T">> \o ToStr(t) \o <<"Z">>

(***************************************************************************)
(* String.prototype.trim                                                   *)
(***************************************************************************)
IsSpace(c) == c \in {" ", "\t", "\n"}

RECURSIVE TrimStart(_)
TrimStart(s) == IF s # <<>> /\ IsSpace(Head(s)) THEN TrimStart(Tail(s)) ELSE s

RECURSIVE TrimEnd(_)
TrimEnd(s) == IF s # <<>> /\ IsSpace(s[Len(s)]) THEN TrimEnd(SubSeq(s, 1, Len(s) - 1)) ELSE s

trim(s) == TrimEnd(TrimStart(s))

(***************************************************************************)
(* JSON.stringify                                                          *)
(***************************************************************************)
\* One property of an object; a property whose value is undefined is omitted.
Prop(name, v) == IF v.k = "undefined" THEN <<>> ELSE <<<<Key(name), P(":"), v>>>>

RECURSIVE JoinProps(_)
JoinProps(ps) ==
    IF ps = <<>> THEN <<>>
    ELSE IF Len(ps) = 1 THEN ps[1]
    ELSE ps[1] \o <<P(",")>> \o JoinProps(Tail(ps))

stringifyObject(o) ==
    <<P("{")>>
    \o JoinProps(Prop("id", o.id) \o Prop("text", o.text) \o Prop("completed", o.completed)
                 \o Prop("createdAt", o.createdAt) \o Prop("completedAt", o.completedAt))
    \o <<P("}")>>

RECURSIVE JoinObjects(_)
JoinObjects(items) ==
    IF items = <<>> THEN <<>>
    ELSE IF Len(items) = 1 THEN stringifyObject(items[1])
    ELSE stringifyObject(items[1]) \o <<P(",")>> \o JoinObjects(Tail(items))

JSONstringify(v) ==
    CASE v.kind = "array" -> <<P("[")>> \o JoinObjects(v.items) \o <<P("]")>>
      [] v.kind = "object" -> stringifyObject(v.items[1])
      [] OTHER -> <<v.lit>>

(***************************************************************************)
(* JSON.parse                                                              *)
(* Covers the texts the model stores: scalars, flat objects with the five  *)
(* task properties, and arrays of such objects; anything else is a         *)
(* SyntaxError.                                                            *)
(***************************************************************************)
PropNames == {"id", "text", "completed", "createdAt", "completedAt"}

\* toks[1] = "{" ... toks[Len] = "}", properties at 2..4, 6..8, ...
WellFormedObject(toks) ==
    /\ Len(toks) >= 2
    /\ toks[1] = P("{")
    /\ toks[Len(toks)] = P("}")
    /\ \/ Len(toks) = 2
       \/ /\ Len(toks) % 4 = 1
          /\ \A i \in 2..(Len(toks) - 1) :
                CASE i % 4 = 2 -> toks[i].k = "key" /\ toks[i].s[1] \in PropNames
                  [] i % 4 = 3 -> toks[i] = P(":")
                  [] i % 4 = 0 -> toks[i].k \in ScalarKinds
                  [] OTHER -> toks[i] = P(",")

\* The value of property name: the last occurrence wins, a missing one is undefined.
PropValue(toks, name) ==
    LET at == {i \in 2..(Len(toks) - 1) : i % 4 = 2 /\ toks[i] = Key(name)}
    IN IF at = {} THEN Undefined
       ELSE toks[(CHOOSE i \in at : \A j \in at : j <= i) + 2]

parseObject(toks) ==
    [id |-> PropValue(toks, "id"), text |-> PropValue(toks, "text"),
     completed |-> PropValue(toks, "completed"), createdAt |-> PropValue(toks, "createdAt"),
     completedAt |-> PropValue(toks, "completedAt")]

\* Index of the first "}" of toks, 0 when there is none
FirstClose(toks) ==
    LET at == {i \in 1..Len(toks) : toks[i] = P("}")}
    IN IF at = {} THEN 0 ELSE CHOOSE i \in at : \A j \in at : i <= j

RECURSIVE ParseElements(_)
\* The elements between "[" and "]": [ok, items]
ParseElements(toks) ==
    LET c == FirstClose(toks)
    IN IF c = 0 \/ ~WellFormedObject(SubSeq(toks, 1, c))
       THEN [ok |-> FALSE, items |-> <<>>]
       ELSE IF c = Len(toks)
       THEN [ok |-> TRUE, items |-> <<parseObject(SubSeq(toks, 1, c))>>]
       ELSE IF toks[c + 1] # P(",") \/ c + 1 = Len(toks)
       THEN [ok |-> FALSE, items |-> <<>>]
       ELSE LET rest == ParseElements(SubSeq(toks, c + 2, Len(toks)))
            IN [ok |-> rest.ok,
                items |-> IF rest.ok THEN <<parseObject(SubSeq(toks, 1, c))>> \o rest.items
                          ELSE <<>>]

\* JSON.parse(text): ok = FALSE is a thrown SyntaxError
JSONparse(toks) ==
    LET fail == [ok |-> FALSE, val |-> ScalarVal(Undefined)]
    IN IF toks = <<>> THEN fail
       ELSE IF Len(toks) = 1
       THEN IF toks[1].k \in ScalarKinds THEN [ok |-> TRUE, val |-> ScalarVal(toks[1])] ELSE fail
       ELSE IF toks[1] = P("{")
       THEN IF WellFormedObject(toks) THEN [ok |-> TRUE, val |-> ObjectVal(parseObject(toks))]
            ELSE fail
       ELSE IF toks[1] = P("[") /\ toks[Len(toks)] = P("]")
       THEN IF Len(toks) = 2 THEN [ok |-> TRUE, val |-> ArrayVal(<<>>)]
            ELSE LET els == ParseElements(SubSeq(toks, 2, Len(toks) - 1))
                 IN IF els.ok THEN [ok |-> TRUE, val |-> ArrayVal(els.items)] ELSE fail
       ELSE fail

(***************************************************************************)
(* What the user can type, what Math.random can return, and what           *)
(* localStorage can hold when the page is opened                           *)
(***************************************************************************)
Pad(n) == Rep(" ", n)

\* A text of n characters without leading or trailing whitespace
Body(n) == IF n < 3 THEN Rep("a", n) ELSE <<"a", " ">> \o Rep("b", n - 2)

\* What the user types while the page runs: nothing, a padded task, a task too long
TypedInputs == {<<>>, Pad(1) \o Body(1) \o Pad(1), Body(MaxTextLen + 1)}

\* Math.random() returns r/36 for r in RandomDraws
RandomDraws == {0, 1}

Item(present, val) == [present |-> present, val |-> val]

\* The instants of earlier visits, when the stored tasks were made; this visit
\* starts right after them
PastInstants == {0, 1}
StartClock == Cardinality(PastInstants)

\* Task objects as page.js writes them
StoredTask(idv, txt, done) ==
    [id |-> idv, text |-> StrVal(txt), completed |-> BoolVal(done),
     createdAt |-> StrVal(toISOString(0)),
     completedAt |-> IF done THEN StrVal(toISOString(0)) ELSE JsNull]

StoredLists ==
    { <<>>,
      <<StoredTask(StrVal(<<"0", "-">>), <<"a">>, FALSE)>>,
      <<StoredTask(StrVal(<<"0", "-">>), <<"a">>, TRUE),
        StoredTask(StrVal(<<"0", "-", "1">>), <<"a">>, FALSE)>> }

\* Texts that are valid JSON but no array, and texts that are no JSON at all
NonArrayTexts == { <<JsNull>>, <<NumVal(5)>>, <<StrVal(<<"x">>)>>, <<P("{"), P("}")>> }
CorruptTexts == { <<P("junk")>>, <<P("["), P("{")>> }

StoredItems ==
    {Item(FALSE, <<>>), Item(TRUE, <<>>)}
    \cup {Item(TRUE, JSONstringify(ArrayVal(l))) : l \in StoredLists}
    \cup {Item(TRUE, t) : t \in NonArrayTexts \cup CorruptTexts}

\* Task objects as part_000 writes them: a numeric id, no completedAt
StoredTaskV1(n, txt, done) ==
    [id |-> NumVal(n), text |-> StrVal(txt), completed |-> BoolVal(done),
     createdAt |-> StrVal(toISOString(0)), completedAt |-> Undefined]

StoredListsV1 ==
    { <<>>,
      <<StoredTaskV1(0, <<"a">>, FALSE)>>,
      <<StoredTaskV1(0, <<"a">>, TRUE), StoredTaskV1(1, <<"a">>, FALSE)>> }

StoredItemsV1 ==
    {Item(FALSE, <<>>), Item(TRUE, <<>>)}
    \cup {Item(TRUE, JSONstringify(ArrayVal(l))) : l \in StoredListsV1}
    \cup {Item(TRUE, t) : t \in NonArrayTexts \cup CorruptTexts}

(***************************************************************************)
(* React state                                                             *)
(***************************************************************************)
\* The hook values as one record
State(t, iv, il, e, ic) ==
    [todosSet |-> FALSE, todos |-> t, inputValue |-> iv, isLoading |-> il, error |-> e,
     isClient |-> ic]

Rendered == State(todos, inputValue, isLoading, error, isClient)

\* No update is queued: React has nothing to render
NoUpdate == queued = Rendered

\* Nothing is running or scheduled: the page waits for the user
Settled == effects = <<>> /\ NoUpdate /\ ~crashed

\* The list and the form are shown and enabled
Interactive == Settled /\ (version = "page" => isClient /\ ~isLoading)

setTodos(q, v) == [q EXCEPT !.todos = v, !.todosSet = TRUE]
setError(q, e) == [q EXCEPT !.error = e]
setInputValue(q, v) == [q EXCEPT !.inputValue = v]
setIsLoading(q, b) == [q EXCEPT !.isLoading = b]
setIsClient(q, b) == [q EXCEPT !.isClient = b]

Hooks == <<todos, inputValue, isLoading, error, isClient>>
History == <<lastOp, writes, lastWrite, loadThrew>>

\* A handler starts a new operation
NewOp(op) == lastOp' = op /\ writes' = 0 /\ lastWrite' = "none" /\ UNCHANGED loadThrew

(***************************************************************************)
(* src/app/page.js                                                         *)
(***************************************************************************)
Base36 == <<"0", "1", "2", "3", "4", "5", "6", "7", "8", "9", "a", "b", "c", "d", "e", "f",
            "g", "h", "i", "j", "k", "l", "m", "n", "o", "p", "q", "r", "s", "t", "u", "v",
            "w", "x", "y", "z">>

\* Math.random().toString(36).substr(2, 9) when Math.random() returns r/36:
\* "0" has no third character, "0.r" has the one digit r
randomSuffix(r) == IF r = 0 THEN <<>> ELSE <<Base36[r + 1]>>

generateId(t, r) == StrVal(ToStr(t) \o <<"-">> \o randomSuffix(r))

\* Mutant: the bound is taken exclusive
TooLongFromTheBound(t) == Len(t) >= MaxTextLen

TooLong(t) == Len(t) > MaxTextLen

newTodo(t, clock, r) ==
    [id |-> generateId(clock, r), text |-> StrVal(t), completed |-> BoolVal(FALSE),
     createdAt |-> StrVal(toISOString(clock)), completedAt |-> JsNull]

\* addTodo: the updates it queues
addTodo(q, items, raw, clock, r) ==
    LET trimmedValue == trim(raw)
    IN IF trimmedValue = <<>> THEN setError(q, ErrEmptyInput)
       ELSE IF TooLong(trimmedValue) THEN setError(q, ErrTooLong)
       ELSE setError(setInputValue(setTodos(q, ArrayVal(items \o <<newTodo(trimmedValue, clock, r)>>)),
                                   <<>>), ErrNone)

\* Mutant: the completion time is set but never removed
toggledKeepingTime(todo, clock) ==
    [todo EXCEPT !.completed = BoolVal(~Truthy(todo.completed)),
                 !.completedAt = IF ~Truthy(todo.completed) THEN StrVal(toISOString(clock))
                                 ELSE todo.completedAt]

toggled(todo, clock) ==
    [todo EXCEPT !.completed = BoolVal(~Truthy(todo.completed)),
                 !.completedAt = IF ~Truthy(todo.completed) THEN StrVal(toISOString(clock))
                                 ELSE Undefined]

toggleTodo(items, id, clock) ==
    [i \in 1..Len(items) |-> IF items[i].id = id THEN toggled(items[i], clock) ELSE items[i]]

deleteTodo(items, id) ==
    LET keep(todo) == todo.id # id IN SelectSeq(items, keep)

\* Mutant: the filter keeps the completed tasks
clearCompletedInverted(items) ==
    LET keep(todo) == Truthy(todo.completed) IN SelectSeq(items, keep)

clearCompleted(items) ==
    LET keep(todo) == ~Truthy(todo.completed) IN SelectSeq(items, keep)

\* The load effect's try/catch/finally
loadTodos(q, st) ==
    LET savedTodos == st
        parsed == JSONparse(savedTodos.val)
        loaded == IF savedTodos.present /\ savedTodos.val # <<>>
                  THEN IF parsed.ok THEN setTodos(q, parsed.val) ELSE setError(q, ErrLoadFailed)
                  ELSE q
    IN setIsLoading(loaded, FALSE)

loadThrows(st) == st.present /\ st.val # <<>> /\ ~JSONparse(st.val).ok

\* The save effect's condition
saveWanted == ~isLoading /\ isClient

\* saveTodos after setItem returned, and after it threw
saveSucceeded(q) == setError(q, ErrNone)
\* Mutant: the catch block only logs
saveFailedSilently(q) == q

saveFailed(q) == setError(q, ErrSaveFailed)

\* The effects of the first render, in the order they are declared
mountEffects == <<"setClient", "load", "save">>

\* Mutant: todos is missing from the save effect's dependencies
effectsAfterWithoutTodos(q) ==
    (IF q.isClient # isClient THEN <<"load">> ELSE <<>>)
    \o (IF q.isLoading # isLoading \/ q.isClient # isClient THEN <<"save">> ELSE <<>>)

\* The effects a later render schedules: those with a changed dependency
effectsAfter(q) ==
    (IF q.isClient # isClient THEN <<"load">> ELSE <<>>)
    \o (IF q.todosSet \/ q.isLoading # isLoading \/ q.isClient # isClient
        THEN <<"save">> ELSE <<>>)

\* The state after construction, with item in localStorage
Mounted(v, item, effs) ==
    /\ version = v
    /\ todos = ArrayVal(<<>>)
    /\ inputValue = <<>>
    /\ isLoading = (v = "page")
    /\ error = ErrNone
    /\ isClient = FALSE
    /\ queued = Rendered
    /\ effects = effs
    /\ crashed = FALSE
    /\ storage = item
    /\ lastOp = "mount"
    /\ writes = 0
    /\ lastWrite = "none"
    /\ loadThrew = FALSE

Init ==
    /\ \E item \in StoredItems : Mounted("page", item, mountEffects)
    /\ now = StartClock
    /\ failures = 0

NextEffect(name) == ~crashed /\ effects # <<>> /\ Head(effects) = name

\* useEffect(() => { setIsClient(true) }, [])
RunSetClient ==
    /\ NextEffect("setClient")
    /\ queued' = setIsClient(queued, TRUE)
    /\ effects' = Tail(effects)
    /\ UNCHANGED <<version, Hooks, crashed, storage, now, History, failures>>

\* useEffect(() => { if (!isClient) return; try { ... } finally { ... } }, [isClient])
RunLoad ==
    /\ NextEffect("load")
    /\ queued' = IF isClient THEN loadTodos(queued, storage) ELSE queued
    /\ loadThrew' = (loadThrew \/ (isClient /\ loadThrows(storage)))
    /\ effects' = Tail(effects)
    /\ UNCHANGED <<version, Hooks, crashed, storage, now, lastOp, writes, lastWrite, failures>>

\* useEffect(() => { if (!isLoading && isClient) saveTodos(todos) }, [todos, ...]):
\* the condition is false
RunSaveSkip ==
    /\ NextEffect("save")
    /\ ~saveWanted
    /\ effects' = Tail(effects)
    /\ UNCHANGED <<version, Hooks, queued, crashed, storage, now, History, failures>>

\* saveTodos(todos): setItem returns
RunSaveOk ==
    /\ NextEffect("save")
    /\ saveWanted
    /\ storage' = Item(TRUE, JSONstringify(todos))
    /\ queued' = saveSucceeded(queued)
    /\ writes' = writes + 1
    /\ lastWrite' = "ok"
    /\ effects' = Tail(effects)
    /\ UNCHANGED <<version, Hooks, crashed, now, lastOp, loadThrew, failures>>

\* saveTodos(todos): setItem throws (quota exceeded, storage unavailable)
RunSaveFail ==
    /\ NextEffect("save")
    /\ saveWanted
    /\ failures < MaxSaveFailures
    /\ failures' = failures + 1
    /\ queued' = saveFailed(queued)
    /\ writes' = writes + 1
    /\ lastWrite' = "failed"
    /\ effects' = Tail(effects)
    /\ UNCHANGED <<version, Hooks, crashed, storage, now, lastOp, loadThrew>>

AddTodo ==
    /\ version = "page" /\ Interactive
    /\ Len(todos.items) < MaxTodos
    /\ \E r \in RandomDraws : queued' = addTodo(queued, todos.items, inputValue, now, r)
    /\ NewOp(IF queued'.todosSet THEN "mutation" ELSE "addRejected")
    /\ UNCHANGED <<version, Hooks, effects, crashed, storage, now, failures>>

ToggleTodo ==
    /\ version = "page" /\ Interactive
    /\ \E i \in 1..Len(todos.items) :
          queued' = setTodos(queued, ArrayVal(toggleTodo(todos.items, todos.items[i].id, now)))
    /\ NewOp("mutation")
    /\ UNCHANGED <<version, Hooks, effects, crashed, storage, now, failures>>

DeleteTodo ==
    /\ version = "page" /\ Interactive
    /\ \E i \in 1..Len(todos.items) :
          queued' = setTodos(queued, ArrayVal(deleteTodo(todos.items, todos.items[i].id)))
    /\ NewOp("mutation")
    /\ UNCHANGED <<version, Hooks, effects, crashed, storage, now, failures>>

ClearCompleted ==
    /\ version = "page" /\ Interactive
    /\ queued' = setTodos(queued, ArrayVal(clearCompleted(todos.items)))
    /\ NewOp("mutation")
    /\ UNCHANGED <<version, Hooks, effects, crashed, storage, now, failures>>

(***************************************************************************)
(* src/unnamed/part_000                                                    *)
(***************************************************************************)
mountEffectsV1 == <<"loadV1", "saveV1">>

\* The load effect: JSON.parse is not guarded
loadTodosV1(q, st) ==
    IF st.present /\ st.val # <<>> THEN setTodos(q, JSONparse(st.val).val) ELSE q

newTodoV1(t, clock) ==
    [id |-> NumVal(clock), text |-> StrVal(t), completed |-> BoolVal(FALSE),
     createdAt |-> StrVal(toISOString(clock)), completedAt |-> Undefined]

addTodoV1(q, items, raw, clock) ==
    IF trim(raw) # <<>>
    THEN setInputValue(setTodos(q, ArrayVal(items \o <<newTodoV1(trim(raw), clock)>>)), <<>>)
    ELSE q

toggleTodoV1(items, id) ==
    [i \in 1..Len(items) |->
        IF items[i].id = id
        THEN [items[i] EXCEPT !.completed = BoolVal(~Truthy(items[i].completed))]
        ELSE items[i]]

deleteTodoV1(items, id) ==
    LET keep(todo) == todo.id # id IN SelectSeq(items, keep)

clearCompletedV1(items) ==
    LET keep(todo) == ~Truthy(todo.completed) IN SelectSeq(items, keep)

effectsAfterV1(q) == IF q.todosSet THEN <<"saveV1">> ELSE <<>>

InitV1 ==
    /\ \E item \in StoredItemsV1 : Mounted("part_000", item, mountEffectsV1)
    /\ now = StartClock
    /\ failures = 0

\* useEffect(() => { ... setTodos(JSON.parse(savedTodos)) }, []): a SyntaxError is
\* not caught and takes the component down
RunLoadV1 ==
    /\ NextEffect("loadV1")
    /\ IF loadThrows(storage)
       THEN crashed' = TRUE /\ effects' = <<>> /\ UNCHANGED queued
       ELSE crashed' = FALSE /\ effects' = Tail(effects)
            /\ queued' = loadTodosV1(queued, storage)
    /\ loadThrew' = (loadThrew \/ loadThrows(storage))
    /\ UNCHANGED <<version, Hooks, storage, now, lastOp, writes, lastWrite, failures>>

\* useEffect(() => { localStorage.setItem(...) }, [todos]): setItem returns
RunSaveV1Ok ==
    /\ NextEffect("saveV1")
    /\ storage' = Item(TRUE, JSONstringify(todos))
    /\ writes' = writes + 1
    /\ lastWrite' = "ok"
    /\ effects' = Tail(effects)
    /\ UNCHANGED <<version, Hooks, queued, crashed, now, lastOp, loadThrew, failures>>

\* setItem throws: nothing catches it
RunSaveV1Fail ==
    /\ NextEffect("saveV1")
    /\ failures < MaxSaveFailures
    /\ failures' = failures + 1
    /\ writes' = writes + 1
    /\ lastWrite' = "failed"
    /\ crashed' = TRUE
    /\ effects' = <<>>
    /\ UNCHANGED <<version, Hooks, queued, storage, now, lastOp, loadThrew>>

AddTodoV1 ==
    /\ version = "part_000" /\ Interactive
    /\ Len(todos.items) < MaxTodos
    /\ queued' = addTodoV1(queued, todos.items, inputValue, now)
    /\ NewOp(IF queued'.todosSet THEN "mutation" ELSE "addRejected")
    /\ UNCHANGED <<version, Hooks, effects, crashed, storage, now, failures>>

ToggleTodoV1 ==
    /\ version = "part_000" /\ Interactive
    /\ \E i \in 1..Len(todos.items) :
          queued' = setTodos(queued, ArrayVal(toggleTodoV1(todos.items, todos.items[i].id)))
    /\ NewOp("mutation")
    /\ UNCHANGED <<version, Hooks, effects, crashed, storage, now, failures>>

DeleteTodoV1 ==
    /\ version = "part_000" /\ Interactive
    /\ \E i \in 1..Len(todos.items) :
          queued' = setTodos(queued, ArrayVal(deleteTodoV1(todos.items, todos.items[i].id)))
    /\ NewOp("mutation")
    /\ UNCHANGED <<version, Hooks, effects, crashed, storage, now, failures>>

ClearCompletedV1 ==
    /\ version = "part_000" /\ Interactive
    /\ queued' = setTodos(queued, ArrayVal(clearCompletedV1(todos.items)))
    /\ NewOp("mutation")
    /\ UNCHANGED <<version, Hooks, effects, crashed, storage, now, failures>>

(***************************************************************************)
(* Both versions: React, the input field, the clock, the reload button     *)
(***************************************************************************)
\* React renders the component with the queued updates and schedules the effects
\* whose dependencies changed; todos.filter (page.js 191, part_000 55) throws when
\* todos is no array, and nothing catches it
Render ==
    /\ ~crashed /\ effects = <<>> /\ ~NoUpdate
    /\ todos' = queued.todos
    /\ inputValue' = queued.inputValue
    /\ isLoading' = queued.isLoading
    /\ error' = queued.error
    /\ isClient' = queued.isClient
    /\ queued' = [queued EXCEPT !.todosSet = FALSE]
    /\ crashed' = (queued.todos.kind # "array")
    /\ effects' = IF queued.todos.kind # "array" THEN <<>>
                  ELSE IF version = "page" THEN effectsAfter(queued)
                  ELSE effectsAfterV1(queued)
    /\ UNCHANGED <<version, storage, now, History, failures>>

\* onChange={(e) => setInputValue(e.target.value)}
HandleChange ==
    /\ Interactive
    /\ \E v \in TypedInputs : queued' = setInputValue(queued, v)
    /\ UNCHANGED <<version, Hooks, effects, crashed, storage, now, History, failures>>

\* Time passes
Tick ==
    /\ Settled
    /\ now < MaxClock
    /\ now' = now + 1
    /\ UNCHANGED <<version, Hooks, queued, effects, crashed, storage, History, failures>>

\* The user reloads the page: the component is constructed again, localStorage stays
Reload ==
    /\ Settled \/ crashed
    /\ lastOp # "mount" \/ crashed
    /\ todos' = ArrayVal(<<>>)
    /\ inputValue' = <<>>
    /\ isLoading' = (version = "page")
    /\ error' = ErrNone
    /\ isClient' = FALSE
    /\ queued' = State(ArrayVal(<<>>), <<>>, version = "page", ErrNone, FALSE)
    /\ effects' = IF version = "page" THEN mountEffects ELSE mountEffectsV1
    /\ crashed' = FALSE
    /\ lastOp' = "mount"
    /\ writes' = 0
    /\ lastWrite' = "none"
    /\ loadThrew' = FALSE
    /\ UNCHANGED <<version, storage, now, failures>>

Next ==
    \/ RunSetClient
    \/ RunLoad
    \/ RunSaveSkip
    \/ RunSaveOk
    \/ RunSaveFail
    \/ Render
    \/ HandleChange
    \/ AddTodo
    \/ ToggleTodo
    \/ DeleteTodo
    \/ ClearCompleted
    \/ Tick
    \/ Reload

Spec == Init /\ [][Next]_vars

NextV1 ==
    \/ RunLoadV1
    \/ RunSaveV1Ok
    \/ RunSaveV1Fail
    \/ Render
    \/ HandleChange
    \/ AddTodoV1
    \/ ToggleTodoV1
    \/ DeleteTodoV1
    \/ ClearCompletedV1
    \/ Tick
    \/ Reload

SpecV1 == InitV1 /\ [][NextV1]_vars

(***************************************************************************)
(* The handlers as functions: every list and every input up to the bounds  *)
(***************************************************************************)
PadLens == {0, 1}

BodyLens == {0, 1, MaxTextLen, MaxTextLen + 1}

RawInputs == {Pad(l) \o Body(n) \o Pad(r) : l \in PadLens, r \in PadLens, n \in BodyLens}

\* Tasks in each of the shapes the handlers produce: new, completed, and reopened
SampleTasks ==
    UNION {{newTodo(<<"a">>, StartClock, r), toggled(newTodo(<<"a">>, StartClock, r), StartClock),
            toggled(toggled(newTodo(<<"a">>, StartClock, r), StartClock), StartClock)}
           : r \in RandomDraws}

SampleTasksV1 ==
    UNION {{newTodoV1(<<"a">>, c), [newTodoV1(<<"a">>, c) EXCEPT !.completed = BoolVal(TRUE)]}
           : c \in PastInstants}

ListsOver(S) == UNION {[1..k -> S] : k \in 0..(MaxTodos + 1)}

InitFn ==
    /\ version \in {"page", "part_000"}
    /\ todos \in {ArrayVal(l) : l \in ListsOver(IF version = "page" THEN SampleTasks
                                                ELSE SampleTasksV1)}
    /\ inputValue \in RawInputs
    /\ isLoading = FALSE
    /\ isClient = (version = "page")
    /\ error \in (IF version = "page" THEN {ErrNone, ErrSaveFailed} ELSE {ErrNone})
    /\ queued = Rendered
    /\ effects = <<>>
    /\ crashed = FALSE
    /\ storage = Item(TRUE, JSONstringify(todos))
    /\ now \in StartClock..MaxClock
    /\ lastOp = "mutation"
    /\ writes = 1
    /\ lastWrite = "ok"
    /\ loadThrew = FALSE
    /\ failures = 0

NextFn ==
    \/ AddTodo
    \/ AddTodoV1
    \/ ClearCompleted
    \/ ClearCompletedV1

SpecFn == InitFn /\ [][NextFn]_vars

(***************************************************************************)
(* Properties                                                              *)
(***************************************************************************)
\* The mount is not over: the load has not run, or what it set is not rendered yet
LoadPending ==
    /\ lastOp = "mount"
    /\ ~crashed
    /\ IF version = "page" THEN isLoading
       ELSE (\E i \in 1..Len(effects) : effects[i] = "loadV1") \/ queued.todosSet

\* C1: from mount until the initial load has finished and the loaded list is the
\* in-memory list, setItem is not called, so a stored non-empty list is still in
\* localStorage, never the encoding of the initial empty list.
C1_NoWriteDuringLoad ==
    (LoadPending /\ queued.todos.kind = "array" /\ queued.todos.items # <<>>)
        => writes = 0 /\ storage = Item(TRUE, JSONstringify(queued.todos))

\* C2: after a load whose JSON.parse threw, once the mount has settled and before any
\* user operation, the list is empty and the error shown is the load-failure warning.
C2_LoadFailureShown ==
    (Settled /\ lastOp = "mount" /\ loadThrew)
        => todos = ArrayVal(<<>>) /\ error = ErrLoadFailed

\* C3: todos is an array in every reachable state, also when the stored text is valid
\* JSON but no array, so rendering (todos.filter, todos.map) never fails.
C3_TodosIsAlwaysAList ==
    todos.kind = "array" /\ queued.todos.kind = "array" /\ ~crashed

\* C7: no two records of the in-memory list share an id.
C7_UniqueIds ==
    todos.kind = "array" =>
        \A i, j \in 1..Len(todos.items) : i # j => todos.items[i].id # todos.items[j].id

\* C10: a failed initial load leaves the stored value untouched as long as the user
\* has done nothing: the undecodable text is not replaced.
C10_FailedLoadKeepsStorage ==
    (lastOp = "mount" /\ loadThrew) => ~JSONparse(storage.val).ok

\* A successful setItem left the encoding of the whole rendered list
StoredIsTodos == JSONparse(storage.val) = [ok |-> TRUE, val |-> todos]

C4_Step ==
    /\ (Settled /\ lastWrite = "failed")' => (error = ErrSaveFailed /\ todos.kind = "array")'
    /\ RunSaveFail => storage' = storage /\ todos' = todos /\ queued'.todos = todos
    /\ (lastWrite = "failed" /\ lastWrite' = "failed") => todos' = todos /\ storage' = storage
    /\ (error = ErrSaveFailed /\ (ToggleTodo \/ DeleteTodo \/ ClearCompleted))
          => queued'.todosSet /\ queued'.todos.kind = "array"
    /\ (error = ErrSaveFailed /\ AddTodo /\ lastOp' = "mutation")
          => queued'.todosSet /\ Len(queued'.todos.items) = Len(todos.items) + 1
    /\ (Render /\ queued.todosSet) => todos' = queued.todos
    /\ RunSaveOk => JSONparse(storage'.val) = [ok |-> TRUE, val |-> todos]

\* C4: when setItem throws after a mutation, the list in memory stays the mutated
\* list, the error becomes the save-failure warning, the stored value stays what it
\* was, later operations still apply to the list in memory, and the next successful
\* write stores the whole current list.
C4_SaveFailureKeepsMemory == [][C4_Step]_vars

C4_Witness ==
    /\ version = "page" /\ Settled
    /\ lastOp = "mutation" /\ lastWrite = "failed"
    /\ error = ErrSaveFailed
    /\ Len(todos.items) = 2
    /\ storage.present /\ storage.val # JSONstringify(todos)

\* C5: after the initial load each successful add, toggle, delete or clearCompleted is
\* followed by exactly one setItem; when it returned and the effects have settled the
\* stored text decodes to the list in memory; a rejected add causes no write.
C5_OneWritePerMutation ==
    /\ lastOp = "mutation" => writes <= 1
    /\ (Settled /\ lastOp = "mutation") => writes = 1
    /\ (Settled /\ lastOp = "mutation" /\ lastWrite = "ok") => StoredIsTodos
    /\ lastOp = "addRejected" => writes = 0

C5_Witness ==
    /\ version = "page" /\ Settled
    /\ lastOp = "mutation" /\ writes = 1 /\ lastWrite = "ok"
    /\ Len(todos.items) = 2
    /\ \E i \in 1..2 : Truthy(todos.items[i].completed)
    /\ StoredIsTodos

\* The input without its leading and trailing whitespace, by the positions of its
\* first and last character that is no whitespace
RefTrim(raw) ==
    LET solid == {i \in 1..Len(raw) : ~IsSpace(raw[i])}
    IN IF solid = {} THEN <<>>
       ELSE SubSeq(raw, CHOOSE i \in solid : \A j \in solid : i <= j,
                        CHOOSE i \in solid : \A j \in solid : j <= i)

C6_Reference ==
    LET t == RefTrim(inputValue)
        old == todos.items
        new == queued'.todos.items
    IN IF t = <<>>
       THEN queued'.todos = todos /\ ~queued'.todosSet /\ queued'.error = ErrEmptyInput
       ELSE IF Len(t) > 200
       THEN queued'.todos = todos /\ ~queued'.todosSet /\ queued'.error = ErrTooLong
       ELSE /\ queued'.todosSet
            /\ queued'.todos.kind = "array"
            /\ Len(new) = Len(old) + 1
            /\ SubSeq(new, 1, Len(old)) = old
            /\ new[Len(new)].text = StrVal(t)
            /\ new[Len(new)].completed = BoolVal(FALSE)
            /\ new[Len(new)].completedAt.k \in {"null", "undefined"}
            /\ queued'.error = ErrNone

\* C6: addTodo of page.js agrees with the reference: with t the trimmed input, an
\* empty t leaves the list and sets the empty-input error, a t longer than 200 leaves
\* the list and sets the too-long error, any other t appends one record with text t,
\* completed false and no completion time, and clears the error.
C6_AddTodoReference == [][AddTodo => C6_Reference]_vars

\* An accepted add of a padded text of exactly 200 characters, with an error showing
C6_Witness ==
    /\ version = "page"
    /\ error = ErrSaveFailed /\ queued.error = ErrNone
    /\ queued.todosSet
    /\ Len(inputValue) = MaxTextLen + 2
    /\ Len(queued.todos.items) = Len(todos.items) + 1
    /\ queued.todos.items[Len(queued.todos.items)].text = StrVal(Body(MaxTextLen))

\* completedAt holds a time exactly when completed is true
CompletedIffTime(v) ==
    v.kind = "array" =>
        \A i \in 1..Len(v.items) :
            (v.items[i].completedAt.k \notin {"null", "undefined"})
                <=> (v.items[i].completed = BoolVal(TRUE))

\* C8: in every state reached by add, toggle, delete, clearCompleted and reloads,
\* every record has a completion time if and only if completed is true, in memory
\* and in what localStorage decodes to.
C8_CompletedIffCompletedAt ==
    /\ CompletedIffTime(todos)
    /\ CompletedIffTime(queued.todos)
    /\ JSONparse(storage.val).ok => CompletedIffTime(JSONparse(storage.val).val)

\* After a reload: a task completed during this visit and a task reopened
C8_Witness ==
    /\ version = "page" /\ Settled /\ lastOp = "mount"
    /\ Len(todos.items) = 2
    /\ \E i, j \in 1..2 :
          /\ todos.items[i].completed = BoolVal(TRUE)
          /\ todos.items[i].completedAt.k = "str"
          /\ todos.items[i].completedAt # StrVal(toISOString(0))
          /\ todos.items[j].completed = BoolVal(FALSE)
          /\ todos.items[j].completedAt = Undefined

C9_Reference ==
    LET old == todos.items
        new == queued'.todos.items
        open == {i \in 1..Len(old) : old[i].completed # BoolVal(TRUE)}
        Nth(k) == CHOOSE i \in open : Cardinality({j \in open : j < i}) = k - 1
    IN /\ queued'.todos.kind = "array"
       /\ \A k \in 1..Len(new) : new[k].completed # BoolVal(TRUE)
       /\ Len(new) = Cardinality(open)
       /\ \A k \in 1..Len(new) : new[k] = old[Nth(k)]
       /\ (open = 1..Len(old)) => new = old

\* C9: in both versions clearCompleted yields a list without completed records that
\* holds every record that is not completed exactly once, unchanged and in the same
\* relative order; with no completed record the list is the same.
C9_ClearCompletedReference == [][(ClearCompleted \/ ClearCompletedV1) => C9_Reference]_vars

\* part_000 cleared the middle one of three tasks; the two that stay differ
C9_Witness ==
    /\ version = "part_000"
    /\ queued.todosSet
    /\ Len(todos.items) = 3
    /\ todos.items[2].completed = BoolVal(TRUE)
    /\ todos.items[1] # todos.items[3]
    /\ queued.todos.items = <<todos.items[1], todos.items[3]>>

====
